---- MODULE Spec2Model ----
(***************************************************************************)
(* Cart, checkout and coupon subsystem of the in-memory e-commerce API.    *)
(*                                                                         *)
(* src/src/app.js holds three concatenated modules: the Express routes     *)
(* (lines 1-238), the in-memory store (lines 240-503) and the              *)
(* configuration (lines 505-523).  Every route handler is synchronous      *)
(* JavaScript, so a handler runs to completion before the next request is  *)
(* dispatched: one action of this module is one whole handler.             *)
(*                                                                         *)
(* Not modelled: the timestamps createdAt / usedAt (no handler reads       *)
(* them) and the product names.  Order ids (uuid v4) are modelled as       *)
(* fresh values: the position of the order in the global history.          *)
(***************************************************************************)
EXTENDS Integers, Sequences, FiniteSets, TLC

(***************************************************************************)
(* Configuration (config.js) and seed catalog (store.js).                  *)
(***************************************************************************)
N == 3
DiscountRatePercent == 10

CatalogIds == {"p1", "p2", "p3"}

Price(pid) ==
    CASE pid = "p1" -> 500
      [] pid = "p2" -> 250
      [] pid = "p3" -> 100

\* state.products is a plain object literal: a property name that Object.prototype
\* defines ("constructor", "toString", ...) reads as a truthy value that has no price.
PrototypeKeys == {"constructor"}

(***************************************************************************)
(* JavaScript numbers.                                                     *)
(***************************************************************************)
\* Quantities and amounts are JavaScript numbers (IEEE 754 doubles), here never
\* negative.  An integer up to SmallMax is Num(n).  Any other finite double is
\* Dbl(m, e), the value m * 2^e with m odd and below 2^53; m is a natural
\* number written as its digits in base 2^15, lowest digit first.
Base == 2^15
SmallMax == 2^30

Num(n) == [k |-> "int", v |-> n]
Dbl(m, e) == [k |-> "dbl", m |-> m, e |-> e]
Infinity == [k |-> "inf", v |-> 0]
NaN == [k |-> "nan", v |-> 0]

\* The doubles 2^53 - 1 (Number.MAX_SAFE_INTEGER), 2^53, 1e300 and 1e308.
MaxSafeInteger == Dbl(<<32767, 32767, 32767, 255>>, 0)
TwoPow53 == Dbl(<<1>>, 53)
E300 == Dbl(<<7527, 17408, 25660, 47>>, 946)
Big == Dbl(<<24133, 14430, 14750, 4>>, 976)

(***************************************************************************)
(* Natural numbers of any size.                                            *)
(***************************************************************************)
natLimb(a, i) == IF i <= Len(a) THEN a[i] ELSE 0

RECURSIVE natOfInt(_)
natOfInt(n) == IF n <= 0 THEN <<>> ELSE <<n % Base>> \o natOfInt(n \div Base)

RECURSIVE natToInt(_)
natToInt(a) == IF a = <<>> THEN 0 ELSE a[1] + Base * natToInt(Tail(a))

RECURSIVE natTrim(_)
natTrim(a) ==
    IF a = <<>> THEN a
    ELSE IF a[Len(a)] = 0 THEN natTrim(SubSeq(a, 1, Len(a) - 1))
    ELSE a

RECURSIVE natAddFrom(_, _, _, _)
natAddFrom(a, b, i, carry) ==
    IF i > Len(a) /\ i > Len(b) THEN (IF carry = 0 THEN <<>> ELSE <<carry>>)
    ELSE LET s == natLimb(a, i) + natLimb(b, i) + carry
         IN  <<s % Base>> \o natAddFrom(a, b, i + 1, s \div Base)

natAdd(a, b) == natAddFrom(a, b, 1, 0)

\* a - b for a >= b
RECURSIVE natSubFrom(_, _, _, _)
natSubFrom(a, b, i, borrow) ==
    IF i > Len(a) THEN <<>>
    ELSE LET d == a[i] - natLimb(b, i) - borrow
         IN  IF d < 0 THEN <<d + Base>> \o natSubFrom(a, b, i + 1, 1)
             ELSE <<d>> \o natSubFrom(a, b, i + 1, 0)

natSub(a, b) == natTrim(natSubFrom(a, b, 1, 0))

\* -1, 0 or 1 as a is below, equal to or above b
RECURSIVE natCmpFrom(_, _, _)
natCmpFrom(a, b, i) ==
    IF i = 0 THEN 0
    ELSE IF a[i] # b[i] THEN (IF a[i] > b[i] THEN 1 ELSE -1)
    ELSE natCmpFrom(a, b, i - 1)

natCmp(a, b) ==
    IF Len(a) # Len(b) THEN (IF Len(a) > Len(b) THEN 1 ELSE -1)
    ELSE natCmpFrom(a, b, Len(a))

\* a * s for a digit s
RECURSIVE natMulSmallFrom(_, _, _, _)
natMulSmallFrom(a, s, i, carry) ==
    IF i > Len(a) THEN (IF carry = 0 THEN <<>> ELSE <<carry>>)
    ELSE LET p == a[i] * s + carry
         IN  <<p % Base>> \o natMulSmallFrom(a, s, i + 1, p \div Base)

natMulSmall(a, s) == IF s = 0 THEN <<>> ELSE natMulSmallFrom(a, s, 1, 0)

\* a * Base^n
natShiftLimbs(a, n) == IF a = <<>> THEN <<>> ELSE [i \in 1..n |-> 0] \o a

RECURSIVE natMul(_, _)
natMul(a, b) ==
    IF b = <<>> THEN <<>>
    ELSE natAdd(natMulSmall(a, b[1]), natShiftLimbs(natMul(a, Tail(b)), 1))

\* a * 2^k
natShl(a, k) == natShiftLimbs(natMulSmall(a, 2^(k % 15)), k \div 15)

\* the digits 1..i of a \div d, for a digit d, rem carried down from digit i + 1
RECURSIVE natDivSmallFrom(_, _, _, _)
natDivSmallFrom(a, d, i, rem) ==
    IF i = 0 THEN <<>>
    ELSE LET cur == rem * Base + a[i]
         IN  natDivSmallFrom(a, d, i - 1, cur % d) \o <<cur \div d>>

\* a \div 2^k
natShr(a, k) ==
    IF k \div 15 >= Len(a) THEN <<>>
    ELSE LET rest == SubSeq(a, (k \div 15) + 1, Len(a))
         IN  natTrim(natDivSmallFrom(rest, 2^(k % 15), Len(rest), 0))

RECURSIVE bitLength(_)
bitLength(n) == IF n = 0 THEN 0 ELSE 1 + bitLength(n \div 2)

natBitLen(a) == IF a = <<>> THEN 0 ELSE 15 * (Len(a) - 1) + bitLength(a[Len(a)])

RECURSIVE trailingZeros(_)
trailingZeros(n) == IF n % 2 = 1 THEN 0 ELSE 1 + trailingZeros(n \div 2)

\* the number of zero bits below the lowest set bit of a # 0
RECURSIVE natTrailingZeros(_)
natTrailingZeros(a) ==
    IF a[1] = 0 THEN 15 + natTrailingZeros(Tail(a)) ELSE trailingZeros(a[1])

\* bit i of a, bit 0 the lowest
natBit(a, i) == (natLimb(a, (i \div 15) + 1) \div 2^(i % 15)) % 2

(***************************************************************************)
(* Double arithmetic.                                                      *)
(***************************************************************************)
\* The number odd * 2^e for an odd mantissa below 2^53 whose highest bit has
\* the weight 2^(top - 1); beyond the largest double it is Infinity.
oddNumber(odd, e, top) ==
    IF top > 1024 THEN Infinity
    ELSE IF e >= 0 /\ top <= 30 THEN Num(natToInt(odd) * 2^e)
    ELSE Dbl(odd, e)

\* The number m * 2^e for m # 0 with z zero bits at its low end.
evenNumber(m, e, z) == oddNumber(natShr(m, z), e + z, natBitLen(m) + e)

\* The number m * 2^e for m below 2^54 with at most 53 significant bits.
makeNumber(m, e) ==
    IF m = <<>> THEN Num(0) ELSE evenNumber(m, e, natTrailingZeros(m))

\* q * 2^e rounded up by one unit of q if the part cut off compares as c with
\* half a unit: above it, or equal to it with q odd.
roundQuotient(q, e, c) ==
    IF c > 0 \/ (c = 0 /\ q[1] % 2 = 1) THEN makeNumber(natAdd(q, <<1>>), e)
    ELSE makeNumber(q, e)

\* m * 2^e rounded to the mantissa q = m \div 2^s
roundBits(m, e, s, q) ==
    roundQuotient(q, e + s, natCmp(natSub(m, natShl(q, s)), natShl(<<1>>, s - 1)))

\* m * 2^e for m of len bits
roundLength(m, e, len) ==
    IF len <= 53 THEN makeNumber(m, e) ELSE roundBits(m, e, len - 53, natShr(m, len - 53))

\* The double nearest to m * 2^e, a tie going to the even mantissa.
roundToDouble(m, e) == roundLength(m, e, natBitLen(m))

\* mantissa and exponent of a finite number
mantissa(x) == IF x.k = "int" THEN natOfInt(x.v) ELSE x.m
exponent(x) == IF x.k = "int" THEN 0 ELSE x.e
topBit(x) == natBitLen(mantissa(x)) + exponent(x)
isFinite(x) == x.k \in {"int", "dbl"}
isZero(x) == x.k = "int" /\ x.v = 0

\* Number.isInteger
isInteger(x) == x.k = "int" \/ (x.k = "dbl" /\ x.e >= 0)

\* The mantissas of a * 2^ea and b * 2^eb at the exponent e: -1, 0 or 1.
compareAt(a, ea, b, eb, e) == natCmp(natShl(a, ea - e), natShl(b, eb - e))

\* a * 2^ea + b * 2^eb, formed at the exponent e
addAt(a, ea, b, eb, e) == roundToDouble(natAdd(natShl(a, ea - e), natShl(b, eb - e)), e)

\* a * 2^ea - b * 2^eb, formed at the exponent e
subAt(a, ea, b, eb, e) == roundToDouble(natSub(natShl(a, ea - e), natShl(b, eb - e)), e)

minimum(i, j) == IF i < j THEN i ELSE j

\* a > b for finite numbers above 0 whose highest bits weigh 2^(ta - 1), 2^(tb - 1)
greaterFinite(a, b, ta, tb) ==
    IF ta # tb THEN ta > tb
    ELSE compareAt(mantissa(a), exponent(a), mantissa(b), exponent(b),
                   minimum(exponent(a), exponent(b))) > 0

\* a > b; false when either is NaN
numGreater(a, b) ==
    IF a.k = "nan" \/ b.k = "nan" THEN FALSE
    ELSE IF b.k = "inf" THEN FALSE
    ELSE IF a.k = "inf" THEN TRUE
    ELSE IF a.k = "int" /\ b.k = "int" THEN a.v > b.v
    ELSE IF isZero(a) THEN FALSE
    ELSE IF isZero(b) THEN TRUE
    ELSE greaterFinite(a, b, topBit(a), topBit(b))

\* a + b for finite numbers above 0.  An addend below 2^-60 of the other is
\* less than half a unit in its last place and leaves it as it is.
addFinite(a, b, ta, tb) ==
    IF ta - tb > 60 THEN a
    ELSE IF tb - ta > 60 THEN b
    ELSE addAt(mantissa(a), exponent(a), mantissa(b), exponent(b),
               minimum(exponent(a), exponent(b)))

\* a + b: NaN is contagious, Infinity absorbs, the exact sum is rounded to a
\* double.
numAdd(a, b) ==
    IF a.k = "nan" \/ b.k = "nan" THEN NaN
    ELSE IF a.k = "inf" \/ b.k = "inf" THEN Infinity
    ELSE IF a.k = "int" /\ b.k = "int" /\ a.v <= SmallMax - b.v THEN Num(a.v + b.v)
    ELSE IF isZero(a) THEN b
    ELSE IF isZero(b) THEN a
    ELSE addFinite(a, b, topBit(a), topBit(b))

\* a - b for finite numbers a >= b > 0
subFinite(a, b, ta, tb) ==
    IF ta - tb > 60 THEN a
    ELSE CASE ~greaterFinite(b, a, tb, ta) ->
            subAt(mantissa(a), exponent(a), mantissa(b), exponent(b),
                  minimum(exponent(a), exponent(b)))

\* a - b for a >= b: Infinity - Infinity is NaN; the exact difference is
\* rounded to a double.
numSub(a, b) ==
    IF a.k = "nan" \/ b.k = "nan" THEN NaN
    ELSE IF a.k = "inf" THEN (IF b.k = "inf" THEN NaN ELSE Infinity)
    ELSE IF a.k = "int" /\ b.k = "int" THEN Num(a.v - b.v)
    ELSE IF isZero(b) THEN a
    ELSE CASE isFinite(b) -> subFinite(a, b, topBit(a), topBit(b))

\* a * b: 0 * Infinity is NaN; the exact product is rounded to a double.
numMul(a, b) ==
    IF a.k = "nan" \/ b.k = "nan" THEN NaN
    ELSE IF a.k = "inf" \/ b.k = "inf"
         THEN (IF isZero(a) \/ isZero(b) THEN NaN ELSE Infinity)
    ELSE IF isZero(a) \/ isZero(b) THEN Num(0)
    ELSE IF a.k = "int" /\ b.k = "int" /\ a.v <= SmallMax \div b.v THEN Num(a.v * b.v)
    ELSE roundToDouble(natMul(mantissa(a), mantissa(b)), exponent(a) + exponent(b))

\* The integer part q of a number, one added when the bit of weight 1/2 is set.
roundHalfUp(q, half) ==
    IF half = 1 THEN makeNumber(natAdd(q, <<1>>), 0) ELSE makeNumber(q, 0)

\* Math.round: the nearest integer, a half going up.
mathRound(x) ==
    IF x.k # "dbl" THEN x
    ELSE IF x.e >= 0 THEN x
    ELSE roundHalfUp(natShr(x.m, 0 - x.e), natBit(x.m, (0 - x.e) - 1))

\* DISCOUNT_RATE: parseFloat('0.10'), the double nearest to 1/10.
DiscountRate == Dbl(<<19661, 6553, 13107, 102>>, -55)

(***************************************************************************)
(* Input domains.                                                          *)
(***************************************************************************)
UserIds == {"u1", "u2"}

\* A falsy productId in the request body (omitted or empty).
NoProductId == ""
UnknownProductId == "p9"

\* The JSON body may carry productId as an array: ArrayP1 stands for ["p1"],
\* ArrayConstructor for ["constructor"].  Every request parses its own array
\* object, and a cart line keeps the object.
ArrayP1 == "[p1]"
ArrayConstructor == "[constructor]"
ArrayIds == {ArrayP1, ArrayConstructor}

\* The JSON object {"toString": 1}: it has no primitive value, so its
\* conversion to a property key or to a number throws a TypeError.
ThrowingId == "{toString}"

ProductIdInputs ==
    {"p1", "constructor", ArrayP1, ArrayConstructor, ThrowingId, UnknownProductId,
     NoProductId}

\* The coupon code space of generateCouponCode, cut to two codes, and a code
\* the generator never draws.  NoCode is a falsy couponCode (omitted or empty).
CouponCodes == {"C-A", "C-B"}
NoCode == ""
ForeignCode == "C-Z"

\* JavaScript values a request can carry as qty: undefined (omitted), an
\* integer, a non-integer (v + 1/2), any JSON number x that is a finite
\* double, Infinity (the JSON number 1e999), a string that is the numeral of
\* an integer, a string that is no numeral, the object {"toString": 1}.
QUndefined == [t |-> "undefined", v |-> 0]
QInt(n) == [t |-> "int", v |-> n]
QHalf(n) == [t |-> "frac", v |-> n]
QDbl(x) == [t |-> "dbl", v |-> 0, x |-> x]
QBig == QDbl(Big)
QInfinity == [t |-> "inf", v |-> 0]
QStr(n) == [t |-> "str", v |-> n]
QText == [t |-> "text", v |-> 0]
QThrows == [t |-> "throws", v |-> 0]
LargeQtys == {MaxSafeInteger, TwoPow53, E300, Big}
QtyInputs ==
    {QUndefined, QInt(-1), QInt(0), QInt(1), QInt(2), QHalf(1), QInfinity,
     QStr(0), QText, QThrows}
        \cup {QDbl(x) : x \in LargeQtys}

(***************************************************************************)
(* Bounds of the explored state space.                                     *)
(***************************************************************************)
MaxOrders == 6
CartMaxCartQty == 3
MaxRequests == 2
MixedMaxOrders == 4

VARIABLES
    users,        \* state.users: userId -> [cart, orders], defined for created users
    orders,       \* state.orders
    coupons,      \* state.coupons
    orderCount,   \* state.orderCount
    resp,         \* the last request handled and its response
    inflight,     \* checkout requests received and not yet handled
    completed     \* checkout requests handled from inflight, in handling order

store == [users |-> users, orders |-> orders, coupons |-> coupons,
          orderCount |-> orderCount]

vars == <<users, orders, coupons, orderCount, resp, inflight, completed>>

\* new Map()
EmptyMap == [x \in {} |-> x]

Request(op, u, p, q, c) ==
    [op |-> op, userId |-> u, productId |-> p, qty |-> q, couponCode |-> c]

\* The stats field of a response that is not an answer to GET /admin/stats.
NoStats ==
    [orderCount |-> 0, totalItemsPurchased |-> Num(0), totalPurchaseAmount |-> Num(0),
     totalDiscountAmount |-> Num(0), coupons |-> <<>>]

\* code is "OK" or the code the error handler answers with: the err.code of
\* the error the handler threw, "INTERNAL_ERROR" for a TypeError; rate is the
\* effectiveDiscountRate of a checkout response, in percent; stats is the
\* data of an admin stats response.
Response(req, code, rate) ==
    [op |-> req.op, userId |-> req.userId, productId |-> req.productId,
     qty |-> req.qty, couponCode |-> req.couponCode, code |-> code, rate |-> rate,
     stats |-> NoStats]

Init ==
    /\ users = EmptyMap
    /\ orders = <<>>
    /\ coupons = <<>>
    /\ orderCount = 0
    /\ resp = Response(Request("init", "", NoProductId, QUndefined, NoCode), "OK", 0)
    /\ inflight = {}
    /\ completed = <<>>

(***************************************************************************)
(* Store helpers.                                                          *)
(***************************************************************************)
getOrCreateUser(st, u) ==
    IF u \in DOMAIN st.users
    THEN st
    ELSE [st EXCEPT !.users = (u :> [cart |-> <<>>, orders |-> <<>>]) @@ st.users]

\* The property key of state.products[productId]: the id converted to a
\* string, which for an array of one string is that string.
propertyKey(pid) ==
    CASE pid = ArrayP1 -> "p1"
      [] pid = ArrayConstructor -> "constructor"
      [] OTHER -> pid

\* state.products[productId]: found (truthy) or undefined, with or without a price.
productLookup(pid) ==
    LET key == propertyKey(pid) IN
    IF key \in CatalogIds THEN [found |-> TRUE, priced |-> TRUE, price |-> Price(key)]
    ELSE IF key \in PrototypeKeys THEN [found |-> TRUE, priced |-> FALSE, price |-> 0]
    ELSE [found |-> FALSE, priced |-> FALSE, price |-> 0]

\* qty || 1
qtyOrDefault(q) ==
    IF q.t = "undefined" \/ (q.t = "int" /\ q.v = 0) THEN QInt(1) ELSE q

\* state.products[productId] and Number(qty) throw a TypeError for an object
\* that has no primitive value.
keyThrows(pid) == pid = ThrowingId
numberThrows(q) == q.t = "throws"

\* Number(qty)
toNumber(q) ==
    CASE q.t \in {"int", "str"} /\ q.v <= SmallMax -> Num(q.v)
      [] q.t \in {"int", "str"} /\ q.v > SmallMax -> makeNumber(natOfInt(q.v), 0)
      [] q.t = "dbl" -> q.x
      [] q.t = "inf" -> Infinity
      [] q.t = "frac" -> Dbl(natOfInt(2 * q.v + 1), -1)
      [] q.t = "text" -> NaN

\* normalizeQty: the number, or the INVALID_QTY error.  A double from 2^53 on
\* is finite, an integer for Number.isInteger, and positive.
normalizeQty(q) ==
    LET n == toNumber(q) IN
    IF ~isFinite(n) \/ ~isInteger(n) \/ ~numGreater(n, Num(0))
    THEN [ok |-> FALSE, n |-> Num(0)]
    ELSE [ok |-> TRUE, n |-> n]

\* it.productId === productId: equal strings; an array is identical to no
\* string and to no array of another request.
sameProductId(a, b) == a = b /\ a \notin ArrayIds

\* user.cart.find((it) => it.productId === productId): the index of the first
\* line of the product, 0 when there is none.
findLine(cart, pid) ==
    IF \E i \in 1..Len(cart) : sameProductId(cart[i].productId, pid)
    THEN CHOOSE i \in 1..Len(cart) :
            /\ sameProductId(cart[i].productId, pid)
            /\ \A j \in 1..(i - 1) : ~sameProductId(cart[j].productId, pid)
    ELSE 0

\* existing.qty += quantity, or user.cart.push({ productId, qty: quantity })
addToCart(cart, pid, quantity) ==
    LET i == findLine(cart, pid) IN
    IF i # 0
    THEN [cart EXCEPT ![i].qty = numAdd(@, quantity)]
    ELSE Append(cart, [productId |-> pid, qty |-> quantity])

\* POST /cart/:userId/items: the response code and the store afterwards.
addItem(st, u, pid, q) ==
    IF pid = NoProductId THEN [code |-> "PRODUCT_ID_REQUIRED", st |-> st]
    ELSE IF keyThrows(pid) THEN [code |-> "INTERNAL_ERROR", st |-> st]
    ELSE IF ~productLookup(pid).found THEN [code |-> "PRODUCT_NOT_FOUND", st |-> st]
    ELSE IF numberThrows(qtyOrDefault(q)) THEN [code |-> "INTERNAL_ERROR", st |-> st]
    ELSE LET nq == normalizeQty(qtyOrDefault(q)) IN
         IF ~nq.ok THEN [code |-> "INVALID_QTY", st |-> st]
         ELSE LET st1 == getOrCreateUser(st, u) IN
              [code |-> "OK",
               st |-> [st1 EXCEPT !.users[u].cart = addToCart(@, pid, nq.n)]]

\* Variant: the line price enters the sum with the wrong sign.
linePriceNegated(product, qty) ==
    IF ~product.priced THEN NaN
    ELSE IF qty.k = "int" THEN Num(0 - product.price * qty.v)
    ELSE NaN

\* product.price * qty: undefined * qty is NaN.
linePrice(product, qty) ==
    IF ~product.priced THEN NaN ELSE numMul(Num(product.price), qty)

RECURSIVE calculateCartTotalFrom(_, _, _)
calculateCartTotalFrom(cart, i, sum) ==
    IF i > Len(cart) THEN sum
    ELSE LET product == productLookup(cart[i].productId)
             qty == IF numGreater(cart[i].qty, Num(0)) THEN cart[i].qty ELSE Num(1)
         IN  IF ~product.found
             THEN calculateCartTotalFrom(cart, i + 1, sum)
             ELSE calculateCartTotalFrom(cart, i + 1,
                                         numAdd(sum, linePrice(product, qty)))

calculateCartTotal(cart) == calculateCartTotalFrom(cart, 1, Num(0))

\* Math.round(subtotal * DISCOUNT_RATE).  The double 0.1 exceeds 1/10 by less
\* than 2^-57, so for an integer s up to SmallMax \div DiscountRatePercent the
\* double s * 0.1 is within 2^-29 of s/10 and not below it when s/10 is a
\* half: it rounds as s/10 does, a half going up.
roundedDiscount(subtotal) ==
    IF subtotal.k = "int" /\ 0 <= subtotal.v
                          /\ subtotal.v <= SmallMax \div DiscountRatePercent
    THEN Num((subtotal.v * DiscountRatePercent + 50) \div 100)
    ELSE mathRound(numMul(subtotal, DiscountRate))

\* discountAmount of placeOrder; every comparison with NaN is false, and
\* Infinity > Infinity is false.
discountFor(subtotal, hasCoupon) ==
    IF ~hasCoupon THEN Num(0)
    ELSE LET d == roundedDiscount(subtotal) IN
         IF numGreater(d, subtotal) THEN subtotal ELSE d

\* state.coupons.some((c) => !c.used)
unusedCouponExists(cs) == \E i \in 1..Len(cs) : ~cs[i].used

\* Variant: the coupon is tied to the order that follows.
createCouponForNextOrder(st, code) ==
    [st EXCEPT !.coupons =
        Append(@, [code |-> code, used |-> FALSE, usedByOrderId |-> 0,
                   createdForOrderNumber |-> st.orderCount + 1])]

createCouponForCurrentOrderCount(st, code) ==
    [st EXCEPT !.coupons =
        Append(@, [code |-> code, used |-> FALSE, usedByOrderId |-> 0,
                   createdForOrderNumber |-> st.orderCount])]

\* Variant: the check for an outstanding unused coupon is left out.
maybeGenerateIgnoringUnused(st, code) ==
    IF st.orderCount = 0 THEN st
    ELSE IF st.orderCount % N # 0 THEN st
    ELSE createCouponForCurrentOrderCount(st, code)

\* Variant: the check that orderCount is a multiple of N is left out.
maybeGenerateOnEveryOrder(st, code) ==
    IF st.orderCount = 0 THEN st
    ELSE IF unusedCouponExists(st.coupons) THEN st
    ELSE createCouponForCurrentOrderCount(st, code)

\* Variant: a checkout issues nothing; coupons come from the admin route alone.
maybeGenerateNever(st, code) == st

maybeGenerateCouponForNthOrder(st, code) ==
    IF st.orderCount = 0 THEN st
    ELSE IF st.orderCount % N # 0 THEN st
    ELSE IF unusedCouponExists(st.coupons) THEN st
    ELSE createCouponForCurrentOrderCount(st, code)

\* The index of the first coupon with this code, 0 for null.
getCouponByCode(cs, code) ==
    IF code = NoCode THEN 0
    ELSE IF \E i \in 1..Len(cs) : cs[i].code = code
    THEN CHOOSE i \in 1..Len(cs) :
            /\ cs[i].code = code
            /\ \A j \in 1..(i - 1) : cs[j].code # code
    ELSE 0

\* Variant: the empty-cart guard never fires.
cartIsNeverEmpty(cart) == FALSE

\* !user.cart || user.cart.length === 0
cartIsEmpty(cart) == Len(cart) = 0

\* subtotal <= 0, false for NaN and for Infinity
totalIsInvalid(subtotal) == subtotal.k = "int" /\ subtotal.v <= 0

\* Variant: the increment is lost.
lostIncrement(n) == n

\* state.orderCount += 1
incrementOrderCount(n) == n + 1

\* Variant: the coupon is bound to the order but its used flag is not set.
markCouponBoundOnly(cs, ci, orderId) ==
    IF ci = 0 THEN cs
    ELSE [cs EXCEPT ![ci].usedByOrderId = orderId]

\* coupon.used = true; coupon.usedByOrderId = order.id
markCouponUsed(cs, ci, orderId) ==
    IF ci = 0 THEN cs
    ELSE [cs EXCEPT ![ci].used = TRUE, ![ci].usedByOrderId = orderId]

\* Variant: the lines are read after the cart has been cleared.
snapshotAfterClear(cart) == <<>>

\* user.cart.map((it) => ({ productId: it.productId, qty: it.qty }))
snapshotItems(cart) ==
    [i \in 1..Len(cart) |-> [productId |-> cart[i].productId, qty |-> cart[i].qty]]

\* Variant: the issuance policy runs before the coupon is marked and the
\* counter incremented.
placeOrderIssuingFirst(st, u, ci, newCode) ==
    LET st1 == getOrCreateUser(st, u)
        cart == st1.users[u].cart
        subtotal == calculateCartTotal(cart)
        discountAmount == discountFor(subtotal, ci # 0)
        order == [id |-> Len(st1.orders) + 1,
                  userId |-> u,
                  items |-> snapshotItems(cart),
                  subtotal |-> subtotal,
                  discountAmount |-> discountAmount,
                  total |-> numSub(subtotal, discountAmount),
                  couponCode |-> IF ci # 0 THEN st1.coupons[ci].code ELSE NoCode]
        st2 == maybeGenerateCouponForNthOrder(
                   [st1 EXCEPT !.orders = Append(@, order),
                               !.users[u].orders = Append(@, order),
                               !.users[u].cart = <<>>], newCode)
    IN  IF cartIsEmpty(cart) THEN [code |-> "CART_EMPTY", st |-> st1]
        ELSE IF totalIsInvalid(subtotal)
             THEN [code |-> "INVALID_CART_TOTAL", st |-> st1]
        ELSE [code |-> "OK",
              st |-> [st2 EXCEPT !.coupons = markCouponUsed(@, ci, order.id),
                                 !.orderCount = incrementOrderCount(@)]]

\* placeOrder({userId, coupon}): coupon is the index ci of a coupon object (0: null),
\* newCode the code generateCouponCode draws if a coupon is issued.
placeOrder(st, u, ci, newCode) ==
    LET st1 == getOrCreateUser(st, u)
        cart == st1.users[u].cart
        subtotal == calculateCartTotal(cart)
        discountAmount == discountFor(subtotal, ci # 0)
        order == [id |-> Len(st1.orders) + 1,
                  userId |-> u,
                  items |-> snapshotItems(cart),
                  subtotal |-> subtotal,
                  discountAmount |-> discountAmount,
                  total |-> numSub(subtotal, discountAmount),
                  couponCode |-> IF ci # 0 THEN st1.coupons[ci].code ELSE NoCode]
        st2 == [st1 EXCEPT !.coupons = markCouponUsed(@, ci, order.id),
                           !.orders = Append(@, order),
                           !.users[u].orders = Append(@, order),
                           !.users[u].cart = <<>>,
                           !.orderCount = incrementOrderCount(@)]
    IN  IF cartIsEmpty(cart) THEN [code |-> "CART_EMPTY", st |-> st1]
        ELSE IF totalIsInvalid(subtotal)
             THEN [code |-> "INVALID_CART_TOTAL", st |-> st1]
        ELSE [code |-> "OK", st |-> maybeGenerateCouponForNthOrder(st2, newCode)]

\* Variant: the handler does not reject a used coupon.
checkoutAcceptingUsed(st, u, couponCode, newCode) ==
    LET ci == getCouponByCode(st.coupons, couponCode) IN
    IF couponCode # NoCode /\ ci = 0 THEN [code |-> "INVALID_COUPON", st |-> st]
    ELSE placeOrder(st, u, ci, newCode)

\* Variant: the cart is examined before the coupon is.
checkoutCartFirst(st, u, couponCode, newCode) ==
    LET ci == getCouponByCode(st.coupons, couponCode)
        st1 == getOrCreateUser(st, u)
    IN
    IF cartIsEmpty(st1.users[u].cart) THEN [code |-> "CART_EMPTY", st |-> st1]
    ELSE IF couponCode # NoCode /\ ci = 0 THEN [code |-> "INVALID_COUPON", st |-> st]
    ELSE IF couponCode # NoCode /\ st.coupons[ci].used
         THEN [code |-> "COUPON_ALREADY_USED", st |-> st]
    ELSE placeOrder(st, u, ci, newCode)

\* POST /checkout/:userId
checkout(st, u, couponCode, newCode) ==
    LET ci == getCouponByCode(st.coupons, couponCode) IN
    IF couponCode # NoCode /\ ci = 0 THEN [code |-> "INVALID_COUPON", st |-> st]
    ELSE IF couponCode # NoCode /\ st.coupons[ci].used
         THEN [code |-> "COUPON_ALREADY_USED", st |-> st]
    ELSE placeOrder(st, u, ci, newCode)

\* Variant: the outstanding-coupon check comes before the multiple-of-N check.
adminChecksUnusedFirst(st, newCode) ==
    IF st.orderCount = 0 THEN [code |-> "NO_ORDERS", st |-> st]
    ELSE IF unusedCouponExists(st.coupons)
         THEN [code |-> "UNUSED_COUPON_EXISTS", st |-> st]
    ELSE IF st.orderCount % N # 0 THEN [code |-> "NOT_NTH_ORDER", st |-> st]
    ELSE [code |-> "OK", st |-> createCouponForCurrentOrderCount(st, newCode)]

\* POST /admin/coupons
adminGenerateCoupon(st, newCode) ==
    IF st.orderCount = 0 THEN [code |-> "NO_ORDERS", st |-> st]
    ELSE IF st.orderCount % N # 0 THEN [code |-> "NOT_NTH_ORDER", st |-> st]
    ELSE IF unusedCouponExists(st.coupons)
         THEN [code |-> "UNUSED_COUPON_EXISTS", st |-> st]
    ELSE [code |-> "OK", st |-> createCouponForCurrentOrderCount(st, newCode)]

\* x || 0 on a number: NaN and 0 are falsy.
numOrZero(x) == IF x.k = "nan" \/ isZero(x) THEN Num(0) ELSE x

\* order.items.reduce((c, it) => c + (it.qty || 0), 0), from line i on.
RECURSIVE orderItemsCount(_, _, _)
orderItemsCount(items, i, c) ==
    IF i > Len(items) THEN c
    ELSE orderItemsCount(items, i + 1, numAdd(c, numOrZero(items[i].qty)))

\* The three reduce calls over state.orders, from order i on.
RECURSIVE foldStats(_, _, _)
foldStats(os, i, acc) ==
    IF i > Len(os) THEN acc
    ELSE foldStats(os, i + 1,
            [count |-> numAdd(acc.count, orderItemsCount(os[i].items, 1, Num(0))),
             purchase |-> numAdd(acc.purchase, os[i].total),
             discount |-> numAdd(acc.discount, numOrZero(os[i].discountAmount))])

getAdminStats(st) ==
    LET t == foldStats(st.orders, 1,
                       [count |-> Num(0), purchase |-> Num(0), discount |-> Num(0)])
    IN  [orderCount |-> st.orderCount,
         totalItemsPurchased |-> t.count,
         totalPurchaseAmount |-> t.purchase,
         totalDiscountAmount |-> t.discount,
         coupons |-> st.coupons]

(***************************************************************************)
(* The request handlers as actions.                                        *)
(***************************************************************************)
Commit(st) ==
    /\ users' = st.users
    /\ orders' = st.orders
    /\ coupons' = st.coupons
    /\ orderCount' = st.orderCount

PostCartItems(u, pid, q) ==
    LET r == addItem(store, u, pid, q) IN
    /\ Commit(r.st)
    /\ resp' = Response(Request("addItem", u, pid, q, NoCode), r.code, 0)
    /\ UNCHANGED <<inflight, completed>>

\* GET /cart/:userId creates the user record; the lines and the total go to the caller.
GetCart(u) ==
    /\ Commit(getOrCreateUser(store, u))
    /\ resp' = Response(Request("viewCart", u, NoProductId, QUndefined, NoCode), "OK", 0)
    /\ UNCHANGED <<inflight, completed>>

PostCheckout(u, c) ==
    \E newCode \in CouponCodes :
        LET r == checkout(store, u, c, newCode) IN
        /\ Commit(r.st)
        /\ resp' = Response(Request("checkout", u, NoProductId, QUndefined, c), r.code,
                            IF r.code = "OK" /\ c # NoCode THEN DiscountRatePercent ELSE 0)
        /\ UNCHANGED <<inflight, completed>>

PostAdminCoupons ==
    \E newCode \in CouponCodes :
        LET r == adminGenerateCoupon(store, newCode) IN
        /\ Commit(r.st)
        /\ resp' = Response(Request("adminIssue", "", NoProductId, QUndefined, NoCode),
                            r.code, 0)
        /\ UNCHANGED <<inflight, completed>>

\* GET /admin/stats reads the store and changes nothing.
GetAdminStats ==
    /\ resp' = [Response(Request("stats", "", NoProductId, QUndefined, NoCode), "OK", 0)
                EXCEPT !.stats = getAdminStats(store)]
    /\ UNCHANGED <<users, orders, coupons, orderCount, inflight, completed>>

\* resetStore(): the state the module starts with.
resetStore ==
    [users |-> EmptyMap, orders |-> <<>>, coupons |-> <<>>, orderCount |-> 0]

\* The exported resetStore, called by the test harness before each test and by
\* no route.  completed, the record of the requests handled on this store, is
\* started anew with it.
ResetStore ==
    /\ Commit(resetStore)
    /\ resp' = Response(Request("reset", "", NoProductId, QUndefined, NoCode), "OK", 0)
    /\ completed' = <<>>
    /\ UNCHANGED inflight

(***************************************************************************)
(* Concurrent checkout requests.  Express dispatches one request at a      *)
(* time and the checkout handler never yields, so requests that are in     *)
(* flight together are handled one after the other, in any order.          *)
(***************************************************************************)
ReceiveCheckout(u, c) ==
    /\ inflight' = inflight \cup
           {[id |-> CHOOSE k \in 1..(Cardinality(inflight) + 1) :
                       /\ \A o \in inflight : o.id # k
                       /\ \A j \in 1..(k - 1) : \E o \in inflight : o.id = j,
             userId |-> u, couponCode |-> c]}
    /\ UNCHANGED <<users, orders, coupons, orderCount, resp, completed>>

\* usable: the handler found the presented code unused and the cart non-empty;
\* raced: another request presenting the same code was in flight.
HandleCheckout(r) ==
    \E newCode \in CouponCodes :
        LET res == checkout(store, r.userId, r.couponCode, newCode)
            ci == getCouponByCode(coupons, r.couponCode)
        IN
        /\ r \in inflight
        /\ Commit(res.st)
        /\ resp' = Response(Request("checkout", r.userId, NoProductId, QUndefined,
                                    r.couponCode),
                            res.code,
                            IF res.code = "OK" /\ r.couponCode # NoCode
                            THEN DiscountRatePercent ELSE 0)
        /\ inflight' = inflight \ {r}
        /\ completed' = Append(completed,
              [userId |-> r.userId, couponCode |-> r.couponCode,
               code |-> res.code,
               usable |-> /\ ci # 0
                          /\ ~coupons[ci].used
                          /\ r.userId \in DOMAIN users
                          /\ users[r.userId].cart # <<>>,
               raced |-> \E o \in inflight \ {r} : o.couponCode = r.couponCode])

(***************************************************************************)
(* Specifications.                                                         *)
(***************************************************************************)
\* The size of a cart: the units of its lines, a line of 2^53 units or more
\* counting as three.
RECURSIVE cartQty(_)
cartQty(cart) ==
    IF cart = <<>> THEN 0
    ELSE (IF Head(cart).qty.k = "int" THEN Head(cart).qty.v ELSE 3) + cartQty(Tail(cart))

CartsWithin(maxQty) == \A u \in DOMAIN users' : cartQty(users'[u].cart) <= maxQty

\* The order engine: long order histories over one cart shape (a user adds one
\* unit of p1 to an empty cart, then checks out).
EngineProductIds == {"p1"}
EngineQtys == {QInt(1)}
EngineCodes == CouponCodes \cup {NoCode}

CartIsFresh(u) == IF u \in DOMAIN users THEN users[u].cart = <<>> ELSE TRUE

Next ==
    \/ \E u \in UserIds, pid \in EngineProductIds, q \in EngineQtys :
          CartIsFresh(u) /\ PostCartItems(u, pid, q)
    \/ \E u \in UserIds : GetCart(u)
    \/ \E u \in UserIds, c \in EngineCodes : PostCheckout(u, c) /\ orderCount' <= MaxOrders
    \/ PostAdminCoupons
    \/ GetAdminStats
    \/ ResetStore

Spec == Init /\ [][Next]_vars

\* The cart ledger: every product id and quantity input goes into the first
\* cart of a user, which is then checked out.
CartUserIds == {"u1"}
CartCodes == {NoCode, ForeignCode}

CartIsFirst(u) == IF u \in DOMAIN users THEN users[u].orders = <<>> ELSE TRUE

\* No line of the cart holds a sum of large quantities that is not itself one
\* of the large quantities a request carries.
CartHoldsInputs(u) ==
    IF u \in DOMAIN users
    THEN \A i \in 1..Len(users[u].cart) :
            users[u].cart[i].qty.k = "dbl" => users[u].cart[i].qty \in LargeQtys
    ELSE TRUE

NextCart ==
    \/ \E u \in CartUserIds, pid \in ProductIdInputs, q \in QtyInputs :
          /\ CartIsFirst(u) /\ CartHoldsInputs(u)
          /\ PostCartItems(u, pid, q)
          /\ CartsWithin(CartMaxCartQty)
    \/ \E u \in CartUserIds : GetCart(u)
    \/ \E u \in CartUserIds, c \in CartCodes : PostCheckout(u, c)
    \/ PostAdminCoupons
    \/ GetAdminStats
    \/ ResetStore

SpecCart == Init /\ [][NextCart]_vars

\* Mixed carts over long histories: one user, one line per cart, of one or two
\* units of a catalog product or of a key the products object inherits.
MixedProductIds == {"p1", "constructor"}
MixedQtys == {QInt(1), QInt(2)}

NextMixed ==
    \/ \E u \in CartUserIds, pid \in MixedProductIds, q \in MixedQtys :
          CartIsFresh(u) /\ PostCartItems(u, pid, q)
    \/ \E u \in CartUserIds : GetCart(u)
    \/ \E u \in CartUserIds, c \in EngineCodes :
          PostCheckout(u, c) /\ orderCount' <= MixedMaxOrders
    \/ PostAdminCoupons
    \/ GetAdminStats
    \/ ResetStore

SpecMixed == Init /\ [][NextMixed]_vars

\* Concurrent checkouts: checkouts without a code bring the store to its first
\* coupon; requests that present a coupon code are received at any time and
\* handled in any order, interleaved with the cart handler.
NextConc ==
    \/ \E u \in UserIds, pid \in EngineProductIds, q \in EngineQtys :
          CartIsFresh(u) /\ PostCartItems(u, pid, q)
    \/ \E u \in UserIds : coupons = <<>> /\ PostCheckout(u, NoCode)
    \/ \E u \in UserIds, c \in CouponCodes :
          /\ Len(completed) + Cardinality(inflight) < MaxRequests
          /\ ReceiveCheckout(u, c)
    \/ \E r \in inflight : HandleCheckout(r)
    \/ ResetStore

SpecConc == Init /\ [][NextConc]_vars

(***************************************************************************)
(* Vocabulary of the claims.                                               *)
(***************************************************************************)
UnusedCount == Cardinality({i \in 1..Len(coupons) : ~coupons[i].used})

\* Orders of the global history that carry coupon code c.
OrdersWithCode(c) == {k \in 1..Len(orders) : orders[k].couponCode = c}

CartOf(u) == IF u \in DOMAIN users THEN users[u].cart ELSE <<>>

\* The step just taken is a checkout / a successful checkout (every handler of
\* Spec and SpecCart writes resp).
CheckoutStep == resp'.op = "checkout"
CheckoutSucceeds == resp'.op = "checkout" /\ resp'.code = "OK"

\* The step just taken is the test harness's resetStore, which is none of the
\* operations of the subsystem: it ends the life of the store the claims speak
\* of and starts a new one from the initial store.
ResetStep == resp'.op = "reset"

(***************************************************************************)
(* C1.  Coupon single use: once some order carries a coupon code, every    *)
(* later checkout presenting that code, by any user with any cart, fails   *)
(* with COUPON_ALREADY_USED, adds no order and leaves orderCount alone; no *)
(* two orders of the history carry the same coupon code.                   *)
(***************************************************************************)
C1_NoSharedCoupon ==
    \A c \in CouponCodes : Cardinality(OrdersWithCode(c)) <= 1

C1_ReuseRejected ==
    (CheckoutStep /\ resp'.couponCode # NoCode /\ OrdersWithCode(resp'.couponCode) # {})
      => /\ resp'.code = "COUPON_ALREADY_USED"
         /\ orders' = orders
         /\ orderCount' = orderCount
         /\ coupons' = coupons

C1_CouponSingleUse == [](C1_NoSharedCoupon) /\ [][C1_ReuseRejected]_vars

\* A consumed code was presented again by a user whose cart holds items, and refused.
C1_Witness ==
    /\ resp.op = "checkout"
    /\ resp.code = "COUPON_ALREADY_USED"
    /\ OrdersWithCode(resp.couponCode) # {}
    /\ CartOf(resp.userId) # <<>>
    /\ orders[Len(orders)].couponCode = resp.couponCode
    /\ orders[Len(orders)].userId # resp.userId

(***************************************************************************)
(* C2.  No pile-up: in every reachable state at most one coupon of the     *)
(* registry is unused.                                                     *)
(***************************************************************************)
C2_NoPileUp == UnusedCount <= 1

\* The second multiple of N was reached while the first coupon was still unused.
C2_Witness ==
    /\ orderCount = 2 * N
    /\ Len(coupons) = 1
    /\ UnusedCount = 1

(***************************************************************************)
(* C3.  Nth-order issuance: no coupon exists before the N-th successful    *)
(* checkout, exactly one unused coupon exists right after it, and a        *)
(* successful checkout that does not consume the one unused coupon leaves  *)
(* exactly one unused coupon and issues none.                              *)
(***************************************************************************)
C3_NoneBeforeNth == orderCount < N => coupons = <<>>

C3_OneAtNth == orderCount = N => (Len(coupons) = 1 /\ UnusedCount = 1)

C3_NoSecondCoupon ==
    (CheckoutSucceeds /\ resp'.couponCode = NoCode /\ UnusedCount = 1)
      => (UnusedCount' = 1 /\ coupons' = coupons)

C3_NthOrderIssuance ==
    [](C3_NoneBeforeNth /\ C3_OneAtNth) /\ [][C3_NoSecondCoupon]_vars

\* The checkout after the N-th one succeeded without a coupon.
C3_Witness ==
    /\ orderCount = N + 1
    /\ resp.op = "checkout"
    /\ resp.code = "OK"
    /\ resp.couponCode = NoCode
    /\ Len(coupons) = 1
    /\ UnusedCount = 1
    /\ coupons[1].createdForOrderNumber = N

(***************************************************************************)
(* C4.  All-or-nothing on failure: a request that is answered with an      *)
(* error leaves the user records, every cart and order history, the global *)
(* order list, every coupon and orderCount exactly as they were.           *)
(***************************************************************************)
C4_FailureChangesNothing ==
    resp'.code # "OK" => UNCHANGED <<users, orders, coupons, orderCount>>

C4_AllOrNothing == [][C4_FailureChangesNothing]_vars

(***************************************************************************)
(* C5.  Checkout on an empty cart.  As claimed: it always fails with       *)
(* CART_EMPTY and leaves orderCount, the order history and the coupon      *)
(* registry unchanged.                                                     *)
(***************************************************************************)
C5_EmptyCartStep == CheckoutStep /\ CartOf(resp'.userId) = <<>>

C5_AlwaysCartEmpty ==
    C5_EmptyCartStep
      => (resp'.code = "CART_EMPTY" /\ UNCHANGED <<orderCount, orders, coupons>>)

C5_Original == [][C5_AlwaysCartEmpty]_vars

(***************************************************************************)
(* C5, amended.  Checkout on an empty cart always fails and leaves         *)
(* orderCount, the order history and the coupon registry unchanged; the    *)
(* error is CART_EMPTY when no code or the code of an unused coupon is     *)
(* presented, INVALID_COUPON when the code is unknown, COUPON_ALREADY_USED *)
(* when the coupon is used.  An unused coupon presented with an empty cart *)
(* stays unused.                                                           *)
(***************************************************************************)
C5_ExpectedError(c) ==
    LET ci == getCouponByCode(coupons, c) IN
    IF c = NoCode THEN "CART_EMPTY"
    ELSE IF ci = 0 THEN "INVALID_COUPON"
    ELSE IF coupons[ci].used THEN "COUPON_ALREADY_USED"
    ELSE "CART_EMPTY"

C5_EmptyCartFails ==
    C5_EmptyCartStep
      => /\ resp'.code = C5_ExpectedError(resp'.couponCode)
         /\ UNCHANGED <<orderCount, orders, coupons>>

\* A checkout that presents an unused coupon with a non-empty cart consumes it,
\* whatever failed before.
C5_UnusedStillConsumable ==
    LET c == resp'.couponCode
        ci == getCouponByCode(coupons, c)
    IN  (CheckoutStep /\ ci # 0 /\ CartOf(resp'.userId) # <<>>)
          => (~coupons[ci].used => (resp'.code = "OK" /\ coupons'[ci].used))

C5_EmptyCartCheckout == [][C5_EmptyCartFails /\ C5_UnusedStillConsumable]_vars

\* An unused coupon was presented with an empty cart by a user whose cart an
\* earlier checkout had cleared; the coupon is still unused.
C5_Witness ==
    /\ resp.op = "checkout"
    /\ resp.code = "CART_EMPTY"
    /\ resp.couponCode # NoCode
    /\ getCouponByCode(coupons, resp.couponCode) # 0
    /\ ~coupons[getCouponByCode(coupons, resp.couponCode)].used
    /\ resp.userId \in DOMAIN users
    /\ users[resp.userId].orders # <<>>

(***************************************************************************)
(* C6.  Order counter: orderCount starts at 0, grows by exactly 1 on each  *)
(* successful checkout, is changed by no other request and always equals   *)
(* the length of the global order history.  A resetStore of the test       *)
(* harness starts the store, and with it the counter, again at 0.          *)
(***************************************************************************)
C6_CounterStep ==
    IF ResetStep THEN orderCount' = 0 /\ orders' = <<>>
    ELSE IF CheckoutSucceeds
    THEN orderCount' = orderCount + 1 /\ Len(orders') = Len(orders) + 1
    ELSE orderCount' = orderCount /\ orders' = orders

C6_OrderCounter ==
    /\ orderCount = 0
    /\ [](orderCount = Len(orders))
    /\ [][C6_CounterStep]_vars

\* Two orders placed, then a request that is not a successful checkout.
C6_Witness ==
    /\ orderCount = 2
    /\ Len(orders) = 2
    /\ resp.op = "addItem"
    /\ resp.code = "OK"

(***************************************************************************)
(* C7.  Concurrent checkouts (SpecConc): among the handled requests that   *)
(* present one coupon code at most one succeeds, and exactly one if some   *)
(* request found the code unused and its user's cart non-empty; every      *)
(* request presenting the code that is handled after the successful one    *)
(* fails with COUPON_ALREADY_USED; orderCount equals the number of orders  *)
(* placed, the orders carrying the code are as many as the successful      *)
(* requests presenting it, and a used coupon is bound to exactly one       *)
(* order.                                                                  *)
(***************************************************************************)
Presenting(c) == {i \in 1..Len(completed) : completed[i].couponCode = c}

Succeeded(c) == {i \in Presenting(c) : completed[i].code = "OK"}

C7_OneWinner ==
    \A c \in CouponCodes :
        /\ Cardinality(Succeeded(c)) <= 1
        /\ (\E i \in Presenting(c) : completed[i].usable)
              => Cardinality(Succeeded(c)) = 1
        /\ \A i \in Succeeded(c) : \A j \in Presenting(c) :
              j > i => completed[j].code = "COUPON_ALREADY_USED"
        /\ Cardinality(OrdersWithCode(c)) = Cardinality(Succeeded(c))
        /\ \A k \in OrdersWithCode(c) :
              orders[k].discountAmount.k = "int" /\ orders[k].discountAmount.v > 0

C7_CounterExact ==
    /\ orderCount = Len(orders)
    /\ orderCount = Cardinality(OrdersWithCode(NoCode))
                      + Cardinality({i \in 1..Len(completed) : completed[i].code = "OK"})

C7_CouponBoundOnce ==
    \A i \in 1..Len(coupons) :
        coupons[i].used =>
            /\ coupons[i].usedByOrderId \in 1..Len(orders)
            /\ orders[coupons[i].usedByOrderId].couponCode = coupons[i].code
            /\ Cardinality(OrdersWithCode(coupons[i].code)) = 1

C7_ConcurrentCheckouts == C7_OneWinner /\ C7_CounterExact /\ C7_CouponBoundOnce

\* Two requests of different users with non-empty carts presented the same unused
\* code while both were in flight; both are handled.
C7_Witness ==
    /\ inflight = {}
    /\ Len(completed) = 2
    /\ completed[1].couponCode = completed[2].couponCode
    /\ completed[1].userId # completed[2].userId
    /\ completed[1].raced
    /\ completed[1].usable
    /\ completed[1].code = "OK"
    /\ completed[2].code = "COUPON_ALREADY_USED"
    /\ CartOf(completed[2].userId) # <<>>
    /\ orderCount = N + 1

(***************************************************************************)
(* C8.  Cart line uniqueness: every cart has at most one line per product  *)
(* and every line a positive integer qty; a successful addItem(u, p, q)    *)
(* adds exactly q (1 when qty is omitted) to the existing line of p and    *)
(* leaves the number and order of the lines unchanged, or else appends the *)
(* line (p, q) at the end.                                                 *)
(***************************************************************************)
C8_LinesUnique ==
    \A u \in DOMAIN users :
        LET cart == users[u].cart IN
        /\ \A i, j \in 1..Len(cart) :
              propertyKey(cart[i].productId) = propertyKey(cart[j].productId) => i = j
        /\ \A i \in 1..Len(cart) :
              isFinite(cart[i].qty) /\ isInteger(cart[i].qty)
                  /\ numGreater(cart[i].qty, Num(0))

\* The quantity the caller asked for: the supplied number, 1 when omitted.
C8_Requested(q) ==
    IF q.t = "undefined" THEN Num(1) ELSE IF q.t = "dbl" THEN q.x ELSE Num(q.v)

\* The integer that a finite number with no fraction is, as a natural number.
C8_Exact(x) == natShl(mantissa(x), exponent(x))

\* The line's qty after q was added to it is the exact sum.
C8_Added(before, q, after) ==
    /\ isFinite(after) /\ isInteger(after)
    /\ C8_Exact(after) = natAdd(C8_Exact(before), C8_Exact(q))

C8_AddStep ==
    (resp'.op = "addItem" /\ resp'.code = "OK") =>
        LET u == resp'.userId
            pid == resp'.productId
            q == C8_Requested(resp'.qty)
            before == CartOf(u)
            after == users'[u].cart
            hit == {i \in 1..Len(before) :
                       propertyKey(before[i].productId) = propertyKey(pid)}
        IN  IF hit # {}
            THEN /\ Len(after) = Len(before)
                 /\ \A i \in 1..Len(before) :
                       /\ after[i].productId = before[i].productId
                       /\ IF i \in hit THEN C8_Added(before[i].qty, q, after[i].qty)
                          ELSE after[i].qty = before[i].qty
            ELSE after = Append(before, [productId |-> pid, qty |-> q])

C8_CartLines == [](C8_LinesUnique) /\ [][C8_AddStep]_vars

(***************************************************************************)
(* C9.  Quantity validation: addItem of a catalog product with a supplied  *)
(* qty that is zero, negative, non-integer or non-finite is rejected with  *)
(* INVALID_QTY and leaves the carts unchanged.                             *)
(***************************************************************************)
C9_BadQty(q) ==
    q.t \notin {"undefined", "dbl", "throws"} /\ ~(q.t \in {"int", "str"} /\ q.v > 0)

C9_BadQtyRejected ==
    (resp'.op = "addItem" /\ resp'.productId \in CatalogIds /\ C9_BadQty(resp'.qty))
      => (resp'.code = "INVALID_QTY" /\ users' = users)

C9_QtyValidation == [][C9_BadQtyRejected]_vars

(***************************************************************************)
(* C10.  Discount arithmetic: every order has subtotal = sum of catalog    *)
(* price * qty over its lines, subtotal > 0, discountAmount = 0 without a  *)
(* coupon and min(subtotal, nearest integer to subtotal * discountRate)    *)
(* with one, total = subtotal - discountAmount, 0 <= discountAmount <=     *)
(* subtotal and 0 <= total <= subtotal.                                    *)
(***************************************************************************)
\* The amounts of the claim are integers computed exactly, as natural numbers.
RECURSIVE C10_CatalogSum(_)
C10_CatalogSum(items) ==
    IF items = <<>> THEN <<>>
    ELSE natAdd(IF propertyKey(Head(items).productId) \in CatalogIds
                THEN natMul(natOfInt(Price(propertyKey(Head(items).productId))),
                            C8_Exact(Head(items).qty))
                ELSE <<>>,
                C10_CatalogSum(Tail(items)))

\* The integer nearest to s * DiscountRatePercent / 100, the upper one of two.
C10_Nearest(s) ==
    LET t == natAdd(natMulSmall(s, DiscountRatePercent), <<50>>)
    IN  natTrim(natDivSmallFrom(t, 100, Len(t), 0))

C10_Min(a, b) == IF natCmp(a, b) <= 0 THEN a ELSE b

C10_IsAmount(x) == isFinite(x) /\ isInteger(x)

C10_OrderArithmetic(o) ==
    /\ C10_IsAmount(o.subtotal) /\ C10_IsAmount(o.discountAmount) /\ C10_IsAmount(o.total)
    /\ \A i \in 1..Len(o.items) : C10_IsAmount(o.items[i].qty)
    /\ C8_Exact(o.subtotal) = C10_CatalogSum(o.items)
    /\ C8_Exact(o.subtotal) # <<>>
    /\ C8_Exact(o.discountAmount) =
           IF o.couponCode = NoCode THEN <<>>
           ELSE C10_Min(C8_Exact(o.subtotal), C10_Nearest(C8_Exact(o.subtotal)))
    /\ natCmp(C8_Exact(o.discountAmount), C8_Exact(o.subtotal)) <= 0
    /\ C8_Exact(o.total) = natSub(C8_Exact(o.subtotal), C8_Exact(o.discountAmount))

C10_DiscountArithmetic == \A k \in 1..Len(orders) : C10_OrderArithmetic(orders[k])

(***************************************************************************)
(* C11.  Effects of a successful checkout by user u: the new order's items *)
(* are u's cart lines as they were just before; the order becomes the last *)
(* element of the global history and of u's history; u's cart becomes      *)
(* empty and u's record stays; no later request changes an order of either *)
(* history, for as long as the store lives (until a resetStore).  Scenario: p1 x 2 checked out without a coupon as the first    *)
(* order gives subtotal 1000, discountAmount 0, total 1000, orderCount 1.  *)
(***************************************************************************)
C11_CheckoutEffects ==
    CheckoutSucceeds =>
        LET u == resp'.userId
            o == orders'[Len(orders')]
        IN  /\ Len(orders') = Len(orders) + 1
            /\ o.userId = u
            /\ o.items = CartOf(u)
            /\ o.items # <<>>
            /\ u \in DOMAIN users'
            /\ users'[u].cart = <<>>
            /\ users'[u].orders = Append(users[u].orders, o)
            /\ \A w \in DOMAIN users : w # u => users'[w] = users[w]

C11_OrdersImmutable ==
    ~ResetStep =>
        /\ Len(orders') >= Len(orders)
        /\ \A k \in 1..Len(orders) : orders'[k] = orders[k]
        /\ \A u \in DOMAIN users :
              /\ u \in DOMAIN users'
              /\ Len(users'[u].orders) >= Len(users[u].orders)
              /\ \A k \in 1..Len(users[u].orders) : users'[u].orders[k] = users[u].orders[k]

C11_Scenario ==
    (/\ Len(orders) >= 1
     /\ orders[1].items = <<[productId |-> "p1", qty |-> Num(2)]>>
     /\ orders[1].couponCode = NoCode)
      => /\ orders[1].subtotal = Num(1000)
         /\ orders[1].discountAmount = Num(0)
         /\ orders[1].total = Num(1000)
         /\ (Len(orders) = 1 => orderCount = 1)

C11_SuccessfulCheckout ==
    [](C11_Scenario) /\ [][C11_CheckoutEffects /\ C11_OrdersImmutable]_vars

\* The scenario's order was placed and u1 has since put a line into the new cart.
C11_Witness ==
    /\ orderCount = 1
    /\ orders[1].userId = "u1"
    /\ orders[1].items = <<[productId |-> "p1", qty |-> Num(2)]>>
    /\ orders[1].total = Num(1000)
    /\ users["u1"].orders = <<orders[1]>>
    /\ users["u1"].cart = <<[productId |-> "p1", qty |-> Num(1)]>>
    /\ resp.op = "addItem"

(***************************************************************************)
(* C12.  A checkout that supplies a code no coupon carries fails with      *)
(* INVALID_COUPON; one that supplies the code of a used coupon fails with  *)
(* COUPON_ALREADY_USED; both are decided before the cart is looked at, so  *)
(* they are reported for an empty cart too.  A checkout without a code     *)
(* skips the validation and has effective discount rate 0; a successful    *)
(* checkout with a coupon has the configured rate.                         *)
(***************************************************************************)
C12_CodeKnown(c) == \E i \in 1..Len(coupons) : coupons[i].code = c

C12_CodeUsed(c) == \E i \in 1..Len(coupons) : coupons[i].code = c /\ coupons[i].used

C12_Classification ==
    CheckoutStep =>
        LET c == resp'.couponCode IN
        /\ (c # NoCode /\ ~C12_CodeKnown(c)) => resp'.code = "INVALID_COUPON"
        /\ (c # NoCode /\ C12_CodeUsed(c)) => resp'.code = "COUPON_ALREADY_USED"
        /\ resp'.code \in {"INVALID_COUPON", "COUPON_ALREADY_USED"}
              => c # NoCode /\ (C12_CodeUsed(c) \/ ~C12_CodeKnown(c))
        /\ c = NoCode => resp'.code \in {"OK", "CART_EMPTY"} /\ resp'.rate = 0
        /\ (resp'.code = "OK" /\ c # NoCode) => resp'.rate = DiscountRatePercent
        /\ resp'.code # "OK" => resp'.rate = 0

C12_CouponErrors == [][C12_Classification]_vars

\* A used code was refused although the caller's cart was empty.
C12_Witness ==
    /\ resp.op = "checkout"
    /\ resp.code = "COUPON_ALREADY_USED"
    /\ C12_CodeUsed(resp.couponCode)
    /\ CartOf(resp.userId) = <<>>

(***************************************************************************)
(* C13.  POST /admin/coupons fails with NO_ORDERS when orderCount = 0,     *)
(* otherwise with NOT_NTH_ORDER when orderCount is not a multiple of N,    *)
(* otherwise with UNUSED_COUPON_EXISTS when an unused coupon exists; a     *)
(* failing call adds no coupon.  Only when all three checks pass does it   *)
(* append exactly one new unused coupon whose createdForOrderNumber is     *)
(* orderCount.                                                             *)
(***************************************************************************)
C13_Expected ==
    IF orderCount = 0 THEN "NO_ORDERS"
    ELSE IF orderCount % N # 0 THEN "NOT_NTH_ORDER"
    ELSE IF UnusedCount > 0 THEN "UNUSED_COUPON_EXISTS"
    ELSE "OK"

C13_AdminStep ==
    resp'.op = "adminIssue" =>
        /\ resp'.code = C13_Expected
        /\ resp'.code # "OK" => coupons' = coupons
        /\ resp'.code = "OK" =>
              /\ Len(coupons') = Len(coupons) + 1
              /\ SubSeq(coupons', 1, Len(coupons)) = coupons
              /\ ~coupons'[Len(coupons')].used
              /\ coupons'[Len(coupons')].createdForOrderNumber = orderCount
        /\ UNCHANGED <<users, orders, orderCount>>

\* The passing branch, evaluated on the store as it would be had every
\* coupon been used and the counter stood at a multiple of N.
C13_PassingBranch ==
    \A k \in 1..2, code \in CouponCodes :
        LET st == [store EXCEPT
                     !.orderCount = k * N,
                     !.coupons = [i \in 1..Len(coupons) |->
                                    [coupons[i] EXCEPT !.used = TRUE]]]
            r == adminGenerateCoupon(st, code)
        IN  /\ r.code = "OK"
            /\ r.st.coupons = Append(st.coupons,
                   [code |-> code, used |-> FALSE, usedByOrderId |-> 0,
                    createdForOrderNumber |-> k * N])
            /\ r.st.orders = st.orders
            /\ r.st.users = st.users
            /\ r.st.orderCount = st.orderCount

C13_AdminPreconditions == [](C13_PassingBranch) /\ [][C13_AdminStep]_vars

\* The third check was the one that failed: orders exist, the counter is a
\* multiple of N, and the coupon list is what it was.
C13_Witness ==
    /\ resp.op = "adminIssue"
    /\ resp.code = "UNUSED_COUPON_EXISTS"
    /\ orderCount > 0
    /\ orderCount % N = 0
    /\ UnusedCount = 1
    /\ Len(coupons) = 2

(***************************************************************************)
(* C14.  GET /admin/stats answers orderCount equal to the global counter,  *)
(* totalItemsPurchased equal to the sum of qty over all lines of all       *)
(* orders, totalPurchaseAmount equal to the sum of order.total,            *)
(* totalDiscountAmount equal to the sum of order.discountAmount, and the   *)
(* whole coupon list; the call changes no state, and two calls in a row    *)
(* answer the same.  The sums on the right are taken again from the order  *)
(* history, last order first.                                              *)
(***************************************************************************)
RECURSIVE C14_QtyOfLines(_)
C14_QtyOfLines(items) ==
    IF items = <<>> THEN Num(0)
    ELSE numAdd(C14_QtyOfLines(Tail(items)), Head(items).qty)

RECURSIVE C14_SumQty(_)
C14_SumQty(k) ==
    IF k = 0 THEN Num(0)
    ELSE numAdd(C14_SumQty(k - 1), C14_QtyOfLines(orders[k].items))

RECURSIVE C14_SumTotal(_)
C14_SumTotal(k) ==
    IF k = 0 THEN Num(0) ELSE numAdd(C14_SumTotal(k - 1), orders[k].total)

RECURSIVE C14_SumDiscount(_)
C14_SumDiscount(k) ==
    IF k = 0 THEN Num(0) ELSE numAdd(C14_SumDiscount(k - 1), orders[k].discountAmount)

C14_Answer ==
    resp.op = "stats" =>
        /\ resp.code = "OK"
        /\ resp.stats.orderCount = orderCount
        /\ resp.stats.totalItemsPurchased = C14_SumQty(Len(orders))
        /\ resp.stats.totalPurchaseAmount = C14_SumTotal(Len(orders))
        /\ resp.stats.totalDiscountAmount = C14_SumDiscount(Len(orders))
        /\ resp.stats.coupons = coupons

C14_ReadOnly ==
    resp'.op = "stats" =>
        /\ UNCHANGED <<users, orders, coupons, orderCount>>
        /\ resp.op = "stats" => resp'.stats = resp.stats

C14_StatsConsistency == [](C14_Answer) /\ [][C14_ReadOnly]_vars

(***************************************************************************)
(* C15.  A coupon is created unused; its used flag changes at most once,   *)
(* from unused to used, and only in a successful checkout that presented   *)
(* its code; a used coupon never becomes unused and no coupon leaves the   *)
(* registry; in every state a coupon is used exactly when exactly one      *)
(* order of the history carries its code, and its usedByOrderId is that    *)
(* order's id.  The steps are those of the requests; a resetStore of the    *)
(* test harness starts a new registry.                                     *)
(***************************************************************************)
C15_Lifecycle ==
    ~ResetStep =>
        /\ Len(coupons') >= Len(coupons)
        /\ \A i \in 1..Len(coupons) :
              /\ coupons'[i].code = coupons[i].code
              /\ coupons'[i].createdForOrderNumber = coupons[i].createdForOrderNumber
              /\ coupons[i].used => coupons'[i] = coupons[i]
              /\ (~coupons[i].used /\ coupons'[i].used)
                    => CheckoutSucceeds /\ resp'.couponCode = coupons[i].code
        /\ \A i \in (Len(coupons) + 1)..Len(coupons') : ~coupons'[i].used

C15_UsedIffOneOrder ==
    \A i \in 1..Len(coupons) :
        /\ coupons[i].used <=> Cardinality(OrdersWithCode(coupons[i].code)) = 1
        /\ coupons[i].used =>
              \A k \in OrdersWithCode(coupons[i].code) :
                  coupons[i].usedByOrderId = orders[k].id

C15_CouponLifecycle == [](C15_UsedIffOneOrder) /\ [][C15_Lifecycle]_vars

(***************************************************************************)
(* C16.  With the seed catalog and carts built only by POST /cart items,   *)
(* no cart that is not empty has a computed subtotal <= 0, and no checkout *)
(* fails with INVALID_CART_TOTAL.                                          *)
(***************************************************************************)
C16_NonPositive(subtotal) == subtotal.k = "int" /\ subtotal.v <= 0

C16_InvalidTotalUnreachable ==
    /\ resp.code # "INVALID_CART_TOTAL"
    /\ \A u \in DOMAIN users :
          users[u].cart # <<>> => ~C16_NonPositive(calculateCartTotal(users[u].cart))
    /\ \A k \in 1..Len(orders) : ~C16_NonPositive(orders[k].subtotal)

\* A cart of three units went through the total check of a checkout.
C16_Witness ==
    /\ resp.op = "checkout"
    /\ resp.code = "OK"
    /\ Len(orders) = 1
    /\ orders[1].items = <<[productId |-> "p1", qty |-> Num(3)]>>
    /\ orders[1].subtotal = Num(1500)

(***************************************************************************)
(* C17.  In every state the coupons of the registry have pairwise distinct *)
(* codes, so that a lookup by code identifies at most one coupon; the      *)
(* generator draws any code of the code space at each issuance.            *)
(***************************************************************************)
C17_CodesDistinct ==
    \A i, j \in 1..Len(coupons) : i # j => coupons[i].code # coupons[j].code

(***************************************************************************)
(* C18.  Inside a checkout the coupon is marked used and orderCount is     *)
(* incremented before the issuance policy runs: a successful checkout that *)
(* consumes the only unused coupon and brings orderCount to a positive     *)
(* multiple of N issues a fresh unused coupon in the same step, created    *)
(* for the new orderCount; one that consumes the coupon at any other count *)
(* leaves no unused coupon, and none appears before a checkout that        *)
(* reaches a multiple of N.                                                *)
(***************************************************************************)
C18_Consuming == CheckoutSucceeds /\ resp'.couponCode # NoCode /\ UnusedCount = 1

C18_ConsumeStep ==
    C18_Consuming =>
        IF orderCount' % N = 0
        THEN /\ Len(coupons') = Len(coupons) + 1
             /\ ~coupons'[Len(coupons')].used
             /\ coupons'[Len(coupons')].createdForOrderNumber = orderCount'
             /\ UnusedCount' = 1
             /\ \A i \in 1..Len(coupons) : coupons'[i].used
        ELSE /\ Len(coupons') = Len(coupons)
             /\ UnusedCount' = 0

C18_NoneUntilMultiple ==
    (UnusedCount = 0 /\ UnusedCount' > 0)
        => CheckoutSucceeds /\ orderCount' > 0 /\ orderCount' % N = 0

C18_RefillAtMultiple ==
    (UnusedCount = 0 /\ CheckoutSucceeds /\ orderCount' % N = 0) => UnusedCount' = 1

C18_IssuanceAfterConsumption ==
    [][C18_ConsumeStep /\ C18_NoneUntilMultiple /\ C18_RefillAtMultiple]_vars

\* The checkout that placed order 2N consumed the first coupon and issued the second.
C18_Witness ==
    /\ resp.op = "checkout"
    /\ resp.code = "OK"
    /\ resp.couponCode # NoCode
    /\ orderCount = 2 * N
    /\ Len(coupons) = 2
    /\ coupons[1].used
    /\ coupons[1].usedByOrderId = orders[2 * N].id
    /\ ~coupons[2].used
    /\ coupons[2].createdForOrderNumber = 2 * N

(***************************************************************************)
(* C19.  In every state where orderCount is a positive multiple of N,      *)
(* exactly one unused coupon exists; hence POST /admin/coupons never       *)
(* succeeds, and every coupon of the registry was issued by a checkout.    *)
(***************************************************************************)
C19_OneUnusedAtMultiple ==
    (orderCount > 0 /\ orderCount % N = 0) => UnusedCount = 1

C19_AdminNeverSucceeds ==
    resp.op = "adminIssue" =>
        resp.code \in {"NO_ORDERS", "NOT_NTH_ORDER", "UNUSED_COUPON_EXISTS"}

C19_IssuedByCheckout == Len(coupons') > Len(coupons) => CheckoutSucceeds

C19_AdminIssueDead ==
    [](C19_OneUnusedAtMultiple /\ C19_AdminNeverSucceeds) /\ [][C19_IssuedByCheckout]_vars

\* The admin route was tried at the first multiple of N, with the coupon of
\* that order still unused, and refused.
C19_Witness ==
    /\ resp.op = "adminIssue"
    /\ resp.code = "UNUSED_COUPON_EXISTS"
    /\ orderCount = N
    /\ Len(coupons) = 1
    /\ ~coupons[1].used

(***************************************************************************)
(* C20.  Every coupon's createdForOrderNumber is a positive multiple of N  *)
(* not above orderCount; no two coupons have the same one; the registry    *)
(* holds at most orderCount div N coupons.                                 *)
(***************************************************************************)
C20_IssuanceNumbers ==
    /\ \A i \in 1..Len(coupons) :
          /\ coupons[i].createdForOrderNumber > 0
          /\ coupons[i].createdForOrderNumber % N = 0
          /\ coupons[i].createdForOrderNumber <= orderCount
    /\ \A i, j \in 1..Len(coupons) :
          i # j => coupons[i].createdForOrderNumber # coupons[j].createdForOrderNumber
    /\ Len(coupons) <= orderCount \div N

\* Two coupons, one for each multiple of N reached so far.
C20_Witness ==
    /\ orderCount = 2 * N
    /\ Len(coupons) = orderCount \div N
    /\ coupons[1].createdForOrderNumber = N
    /\ coupons[2].createdForOrderNumber = 2 * N
    /\ resp.op = "stats"

====
